---- MODULE Spec2Model ----
(***************************************************************************)
(* State-machine model of the ModelViewer class of the 3D model uploader   *)
(* (src/unnamed/part_003, the latest revision of js/main.js): HDRI loading,*)
(* sun-direction extraction, the sun-light synchronizer and the debounced  *)
(* two-tier environment update.                                            *)
(*                                                                         *)
(* JavaScript numbers are modelled in fixed point: a real value r is the   *)
(* integer r * One.  Angles in radians use the same scale.                 *)
(***************************************************************************)
EXTENDS Integers, Sequences, FiniteSets, TLC

\* ------------------------------------------------------------------------
\* Bounds of the model
\* ------------------------------------------------------------------------

\* HDRI loads in flight at the same time
MaxInflight == 2
\* HDRI loads that succeed or are in flight, in the specification of the resources
MaxLoads == 3
\* analysis resolution (512 x 256 in the source, scaled down)
sampleWidth == 2
sampleHeight == 2

\* ------------------------------------------------------------------------
\* Fixed-point arithmetic standing for JavaScript floating point
\* ------------------------------------------------------------------------

One == 10^4

\* Math.PI
PI == 31416

\* a / b rounded to the nearest integer (b > 0)
RoundDiv(a, b) == (2 * a + b) \div (2 * b)

Abs(a) == IF a < 0 THEN -a ELSE a

RECURSIVE SqrtIter(_, _, _)
SqrtIter(n, lo, hi) ==
    IF lo >= hi THEN lo
    ELSE LET mid == (lo + hi + 1) \div 2
         IN  IF mid * mid <= n THEN SqrtIter(n, mid, hi) ELSE SqrtIter(n, lo, mid - 1)

\* f or f + 1, whichever is nearer to the square root of n (f its floor)
Nearest(n, f) == IF n - f * f > f THEN f + 1 ELSE f

\* Math.sqrt on a value of scale One*One, result of scale One (nearest)
Sqrt(n) == Nearest(n, SqrtIter(n, 0, 46340))

\* one more term of the sine series: t is the term of degree k-1
SinTerm(t, x, k) == -RoundDiv(RoundDiv(t * x, One) * x, One * k * (k + 1))

\* the terms of the sine series of degree k to 11, t being the term of degree k
RECURSIVE SinSum(_, _, _)
SinSum(t, x, k) == IF k > 11 THEN 0 ELSE t + SinSum(SinTerm(t, x, k + 1), x, k + 2)

\* sine series on the reduced range -PI/2 .. PI/2
SinSeries(x) == SinSum(x, x, 1)

\* the angle a brought into -PI .. PI
Wrap(a) == ((a + PI) % (2 * PI)) - PI

\* the angle of -PI/2 .. PI/2 with the sine of w, w in -PI .. PI
Reduce(w) ==
    IF w > PI \div 2 THEN PI - w
    ELSE IF w < -(PI \div 2) THEN -PI - w
    ELSE w

\* Math.sin
Sin(a) == SinSeries(Reduce(Wrap(a)))

\* Math.cos
Cos(a) == Sin(a + PI \div 2)

\* ------------------------------------------------------------------------
\* THREE.Vector3
\* ------------------------------------------------------------------------

Vector3(x, y, z) == <<x, y, z>>

\* Vector3.length
Length(v) == Sqrt(v[1] * v[1] + v[2] * v[2] + v[3] * v[3])

\* Vector3.divideScalar, the scalar of scale One
divideScalar(v, d) == <<RoundDiv(v[1] * One, d), RoundDiv(v[2] * One, d), RoundDiv(v[3] * One, d)>>

\* length || 1
OrOne(len) == IF len = 0 THEN One ELSE len

\* Vector3.normalize: divideScalar(length() || 1)
normalize(v) == divideScalar(v, OrOne(Length(v)))

\* Vector3.multiplyScalar with an integer scalar
multiplyScalar(v, s) == <<v[1] * s, v[2] * s, v[3] * s>>

\* a rotation that computes z from the x it has already overwritten
applyAxisAngleYInPlace(v, angle) ==
    <<RoundDiv(v[1] * Cos(angle) + v[3] * Sin(angle), One),
      v[2],
      RoundDiv(v[3] * Cos(angle)
               - RoundDiv(v[1] * Cos(angle) + v[3] * Sin(angle), One) * Sin(angle), One)>>

\* the left-handed rotation about the vertical axis
applyAxisAngleYLeftHanded(v, angle) ==
    <<RoundDiv(v[1] * Cos(angle) - v[3] * Sin(angle), One),
      v[2],
      RoundDiv(v[3] * Cos(angle) + v[1] * Sin(angle), One)>>

\* Vector3.applyAxisAngle(new THREE.Vector3(0, 1, 0), angle): right-handed
\* rotation about the vertical axis
applyAxisAngleY(v, angle) ==
    <<RoundDiv(v[1] * Cos(angle) + v[3] * Sin(angle), One),
      v[2],
      RoundDiv(v[3] * Cos(angle) - v[1] * Sin(angle), One)>>

\* degrees * Math.PI / 180
DegToRad(deg) == RoundDiv(deg * PI, 180)


\* ------------------------------------------------------------------------
\* Values the input events carry, and the objects of the scene
\* ------------------------------------------------------------------------

\* what a field holds before anything is assigned to it (JavaScript null)
Null == [kind |-> "null"]

\* hdriRotationTimer = null: no timer handle stored
NoTimer == 0

\* values of the hdri-rotation slider, degrees
Rotations == {0, 45, 90}

\* the right angles the rotation laws are checked over, in degrees
RightAngles == {0, 90, 180, 270, 360}

\* the UVs a brightest sample is drawn from, in units of 1 / One
BrightestUs == {0, 1250, 2500, 5000, 7500}
BrightestVs == {2500, 5000, 7500}

\* values of the hdri-intensity and sun-intensity sliders
HdriIntensities == {One, 2 * One}
SunIntensities == {2 * One, 3 * One}

\* values of the rotation-x / rotation-y / rotation-z sliders, degrees
ModelRotations == {0, 90}

\* names loadHDRI is called with: two of the calibrated presets and a name
\* the calibration table has no entry for
Presets == {"studio", "sunset", "custom"}

\* this.hdriSunPositions (two of its seven entries, rounded to 4 decimals)
hdriSunPositions ==
    [studio |-> [uv |-> <<5380, 4931>>, direction |-> Vector3(2363, -217, 9714)],
     sunset |-> [uv |-> <<5859, 4702>>, direction |-> Vector3(5117, -934, 8541)]]

\* colours of a pixel of the analysis buffer: r, g, b (alpha is not read)
Black == <<0, 0, 0>>
Red == <<One, 0, 0>>
Green == <<0, One, 0>>
Colours == {Black, Red, Green}

PixelIndex == 0 .. (sampleWidth * sampleHeight - 1)

\* the buffers readRenderTargetPixels can fill: row-major, sampleWidth wide
PixelBuffers == [PixelIndex -> Colours]

\* an image with one bright pixel at row y, column x
PlantedImage(y, x) == [i \in PixelIndex |-> IF i = y * sampleWidth + x THEN Green ELSE Black]

\* an image of one colour
FlatImage(c) == [i \in PixelIndex |-> c]

\* the images a loaded HDR file can hold (as rendered at analysis resolution)
Images == {FlatImage(Black), PlantedImage(sampleHeight - 1, 0)}

\* Textures and environment maps are objects: id is the identity of the object,
\* chosen new among the objects that still exist when it is created.

\* the texture the RGBELoader hands to the success callback
Texture(id, presetName, image) ==
    [kind |-> "texture", id |-> id, preset |-> presetName, image |-> image]

\* Texture.clone: a new texture object of the same image
clone(texture, id) == [texture EXCEPT !.kind = "clone", !.id = id]

\* pmremGenerator.fromEquirectangular(texture).texture, a new object each call
fromEquirectangular(texture, id) == [texture EXCEPT !.kind = "envMap", !.id = id]

\* an identity none of the objects has
FreshId(objects) ==
    CHOOSE n \in 1 .. (Cardinality(objects) + 1) :
        /\ \A o \in objects : o.kind # "null" => o.id # n
        /\ \A m \in 1 .. (n - 1) : \E o \in objects : o.kind # "null" /\ o.id = m

\* setupCanvasDimensions: the canvas is Full HD
HDWidth == 1920
HDHeight == 1080

\* the uploads and the turntable frames a behaviour holds at most
MaxUploads == 2
MaxFrames == 4

\* the largest dimension of the bounding box of an uploaded model
ModelSizes == {2 * One, 4 * One}

\* the formats of an uploaded file, by its extension
Formats == {"gltf", "fbx", "other"}

\* values of the turntable-speed slider: 1.0, and the speed at which a frame
\* turns the container by an eighth of a turn (0.01 * speed = PI / 4)
TurntableSpeeds == {One, 25 * PI}

\* values of the position-y slider
Positions == {0, One}

\* the scale factors of the export: 1x, 2x, 4x
Scales == {1, 2, 4}

\* startup placeholder of the sun light, setupLights
PlaceholderPosition == Vector3(5 * One, 10 * One, 5 * One)

Origin == Vector3(0, 0, 0)

\* distance of the sun light from the origin, updateSunLightPosition
distance == 20

VARIABLES
    viewer,          \* scalar fields of the ModelViewer object
    sunLight,        \* this.sunLight: position, target, intensity, visible
    scene,           \* this.scene: environment, background and their rotations
    renderer,        \* this.renderer: tone mapping, exposure, clear alpha
    backgroundCanvas,\* what the 2D background layer shows
    modelContainer,  \* this.modelContainer: orientation, position, scale, children
    dom,             \* values of the rotation-x/y/z sliders
    disposed,        \* textures and environment maps dispose() was called on
    timers,          \* handles of the pending setTimeout callbacks
    inflight,        \* the HDRI loads in flight, in the order of their loadHDRI calls
    handler,         \* what the handler that ran last did
    window,          \* the page: whether viewer is constructed, whether Chatooly is there
    canvas,          \* viewer.canvas, the drawing buffer of the renderer: width, height
    targetCanvas,    \* the canvas an export draws to: width, height, layers drawn
    models,          \* uploads so far, model loads in flight, disposed models,
                     \* frames the turntable has turned
    live,            \* history: the textures, clones and environment maps created
                     \* and not disposed, by kind
    latest,          \* history: what became of the most recent loadHDRI call
    burst            \* history: the current burst of hdri-rotation inputs

vars == <<viewer, sunLight, scene, renderer, backgroundCanvas, modelContainer, dom,
          disposed, timers, inflight, handler, window, canvas, targetCanvas, models,
          live, latest, burst>>

\* the running maximum before the brightest-pixel scan starts
ScanStart == [maxLuminance |-> 0, brightestU |-> One \div 2, brightestV |-> One \div 2]

\* the fields the methods of ModelViewer read and write, as one record, at the
\* start of a handler: nothing analysed, nothing regenerated yet
State ==
    [viewer |-> viewer, sunLight |-> sunLight, scene |-> scene, renderer |-> renderer,
     backgroundCanvas |-> backgroundCanvas, modelContainer |-> modelContainer,
     dom |-> dom, disposed |-> disposed, timers |-> timers,
     window |-> window, canvas |-> canvas, targetCanvas |-> targetCanvas,
     models |-> models,
     analyzeCalls |-> 0, brightest |-> ScanStart, regenCalls |-> <<>>,
     rendered |-> FALSE]

\* the fields that hold a texture or an environment map
Fields(s) ==
    <<s.viewer.originalHDRITexture, s.viewer.currentHDRI, s.scene.environment,
      s.scene.background>>

\* the textures and environment maps the viewer still holds a reference to;
\* an object nothing refers to is garbage and is dropped from the model
Referenced(s) == {s.viewer.originalHDRITexture, s.viewer.currentHDRI, s.scene.environment,
                  s.scene.background}

\* the objects an identity is taken by
Heap(s) == Referenced(s) \cup s.disposed

\* Identities are only ever compared, so a state is kept up to their renaming:
\* an object is numbered by the first field that refers to it.
First(f, o) == CHOOSE i \in 1..Len(f) : f[i] = o /\ \A j \in 1..(i - 1) : f[j] # o

Before(f, i) == {f[j] : j \in 1..(i - 1)} \ {[kind |-> "null"]}

Rank(s, o) == Cardinality(Before(Fields(s), First(Fields(s), o))) + 1

Renamed(s, o) == IF o.kind = "null" THEN o ELSE [o EXCEPT !.id = Rank(s, o)]

\* what a handler did: the outcome of the load it completed, the calls of
\* analyzeHDRIBrightestPoint and what the scan found, the rotations
\* generateRotatedEnvironment was called with, and whether render() drew the
\* scene
Did(s, outcome) ==
    [outcome |-> outcome, analyzeCalls |-> s.analyzeCalls, brightest |-> s.brightest,
     regenCalls |-> s.regenCalls, rendered |-> s.rendered]

\* the state a handler that ends in s leaves behind
Commit(s, outcome) ==
    /\ viewer' = [s.viewer EXCEPT
                    !.originalHDRITexture = Renamed(s, @), !.currentHDRI = Renamed(s, @)]
    /\ sunLight' = s.sunLight
    /\ scene' = [s.scene EXCEPT !.environment = Renamed(s, @), !.background = Renamed(s, @)]
    /\ renderer' = s.renderer
    /\ backgroundCanvas' = s.backgroundCanvas
    /\ modelContainer' = s.modelContainer
    /\ dom' = s.dom
    /\ disposed' = {Renamed(s, o) : o \in s.disposed \cap Referenced(s)}
    /\ timers' = s.timers
    /\ window' = s.window
    /\ canvas' = s.canvas
    /\ targetCanvas' = s.targetCanvas
    /\ models' = s.models
    /\ handler' = Did(s, outcome)

\* ------------------------------------------------------------------------
\* Sun direction extraction
\* ------------------------------------------------------------------------

\* luminance (Rec. 709) of the pixel <<r, g, b>>
Luminance(pixel) == RoundDiv(2126 * pixel[1] + 7152 * pixel[2] + 722 * pixel[3], One)

\* a scan body that takes u from the row and v from the column
ScanPixelTransposed(buffer, best, y, x) ==
    LET idx == y * sampleWidth + x
        luminance == Luminance(buffer[idx])
    IN  IF luminance > best.maxLuminance
        THEN [maxLuminance |-> luminance,
              brightestU |-> RoundDiv(y * One, sampleHeight),
              brightestV |-> One - RoundDiv(x * One, sampleWidth)]
        ELSE best

\* the body of the two nested loops, for the pixel at row y, column x
ScanPixel(buffer, best, y, x) ==
    LET idx == y * sampleWidth + x
        luminance == Luminance(buffer[idx])
    IN  IF luminance > best.maxLuminance
        THEN [maxLuminance |-> luminance,
              brightestU |-> RoundDiv(x * One, sampleWidth),
              brightestV |-> One - RoundDiv(y * One, sampleHeight)]
        ELSE best

\* for (y ...) for (x ...): rows outermost, columns innermost
RECURSIVE ScanLoop(_, _, _, _)
ScanLoop(buffer, best, y, x) ==
    IF y >= sampleHeight THEN best
    ELSE IF x >= sampleWidth THEN ScanLoop(buffer, best, y + 1, 0)
    ELSE ScanLoop(buffer, ScanPixel(buffer, best, y, x), y, x + 1)

\* the brightest-pixel scan of analyzeHDRIBrightestPoint
FindBrightest(buffer) == ScanLoop(buffer, ScanStart, 0, 0)

\* a conversion that drops the cos(theta) factor and the normalisation
SphericalToDirectionFlat(phi, theta) == Vector3(Sin(phi), Sin(theta), Cos(phi))

\* equirectangular UV to a unit direction
\* the unit direction of longitude phi and latitude theta
SphericalToDirection(phi, theta) ==
    normalize(Vector3(RoundDiv(Cos(theta) * Sin(phi), One),
                      Sin(theta),
                      RoundDiv(Cos(theta) * Cos(phi), One)))

equirectUVToDirection(u, v) ==
    SphericalToDirection(RoundDiv((u - One \div 2) * PI * 2, One),
                         RoundDiv((v - One \div 2) * PI, One))

\* analyzeHDRIBrightestPoint(texture): render the texture to the float buffer,
\* scan it, convert the brightest UV to a direction; returns the state with
\* the scan result and the call counted
analyzeHDRIBrightestPoint(s, texture) ==
    [s EXCEPT !.brightest = FindBrightest(texture.image),
              !.analyzeCalls = @ + 1]

\* the direction the last analysis returned
AnalyzedDirection(s) == equirectUVToDirection(s.brightest.brightestU, s.brightest.brightestV)

\* ------------------------------------------------------------------------
\* Methods of ModelViewer
\* ------------------------------------------------------------------------

\* texture.dispose()
dispose(s, texture) == [s EXCEPT !.disposed = @ \cup {texture}]

\* a synchronizer that rotates the stored direction itself, not a clone
updateSunLightPositionAccumulating(s) ==
    IF ~s.viewer.sunEnabled THEN s
    ELSE [s EXCEPT !.viewer.sunDirection =
                       applyAxisAngleY(@, DegToRad(s.viewer.hdriRotation)),
                   !.sunLight.position =
                       multiplyScalar(applyAxisAngleY(s.viewer.sunDirection,
                                                      DegToRad(s.viewer.hdriRotation)),
                                      distance),
                   !.sunLight.target = Origin,
                   !.sunLight.intensity = s.viewer.sunIntensity,
                   !.sunLight.visible = s.viewer.sunEnabled]

\* a synchronizer that places the light along the stored direction, unrotated
updateSunLightPositionUnrotated(s) ==
    IF ~s.viewer.sunEnabled THEN s
    ELSE [s EXCEPT !.sunLight.position = multiplyScalar(s.viewer.sunDirection, distance),
                   !.sunLight.target = Origin,
                   !.sunLight.intensity = s.viewer.sunIntensity,
                   !.sunLight.visible = s.viewer.sunEnabled]

updateSunLightPosition(s) ==
    IF ~s.viewer.sunEnabled THEN s
    ELSE [s EXCEPT !.sunLight.position =
                       multiplyScalar(applyAxisAngleY(s.viewer.sunDirection,
                                                      DegToRad(s.viewer.hdriRotation)),
                                      distance),
                   !.sunLight.target = Origin,
                   !.sunLight.intensity = s.viewer.sunIntensity,
                   !.sunLight.visible = s.viewer.sunEnabled]

updateCanvasBackground(s) ==
    IF s.viewer.hdriBackgroundVisible /\ s.viewer.currentHDRI # Null
    THEN [s EXCEPT !.scene.background = s.viewer.currentHDRI,
                   !.renderer.clearAlpha = 1,
                   !.renderer.toneMapping = "ACESFilmicToneMapping",
                   !.renderer.toneMappingExposure = s.viewer.hdriIntensity,
                   !.backgroundCanvas = "cleared"]
    ELSE [s EXCEPT !.scene.background = Null,
                   !.renderer.clearAlpha = 0,
                   !.renderer.toneMapping = "NoToneMapping",
                   !.renderer.toneMappingExposure = One,
                   !.backgroundCanvas = "drawn"]

\* generateRotatedEnvironment: if (this.currentHDRI) this.currentHDRI.dispose()
disposeCurrentHDRI(s) ==
    IF s.viewer.currentHDRI # Null THEN dispose(s, s.viewer.currentHDRI) ELSE s

\* generateRotatedEnvironment: the environment map envMap becomes the scene's
\* environment and currentHDRI, at the rotation rotationRadians
applyEnvironment(s, envMap, rotationRadians) ==
    [s EXCEPT !.regenCalls = Append(@, rotationRadians),
              !.scene.environment = envMap,
              !.viewer.currentHDRI = envMap,
              !.scene.environmentRotation = <<0, rotationRadians, 0>>,
              !.scene.backgroundRotation = <<0, rotationRadians, 0>>]

\* generateRotatedEnvironment: a new environment map from the texture
generateEnvironment(s, texture, rotationRadians) ==
    applyEnvironment(s, fromEquirectangular(texture, FreshId(Heap(s) \cup {texture})),
                     rotationRadians)

\* a regeneration that leaves scene.background to the map it has disposed
generateRotatedEnvironmentStale(s, texture, rotationRadians) ==
    generateEnvironment(disposeCurrentHDRI(s), texture, rotationRadians)

generateRotatedEnvironment(s, texture, rotationRadians) ==
    updateCanvasBackground(generateEnvironment(disposeCurrentHDRI(s), texture, rotationRadians))

\* THREE.Matrix4 rotations, their upper-left 3 x 3
makeRotationX(a) == <<<<One, 0, 0>>, <<0, Cos(a), -Sin(a)>>, <<0, Sin(a), Cos(a)>>>>
makeRotationY(a) == <<<<Cos(a), 0, Sin(a)>>, <<0, One, 0>>, <<-Sin(a), 0, Cos(a)>>>>
makeRotationZ(a) == <<<<Cos(a), -Sin(a), 0>>, <<Sin(a), Cos(a), 0>>, <<0, 0, One>>>>
Identity3 == <<<<One, 0, 0>>, <<0, One, 0>>, <<0, 0, One>>>>

\* Matrix4.multiply
multiply(m, n) ==
    [i \in 1..3 |-> [j \in 1..3 |->
        RoundDiv(m[i][1] * n[1][j] + m[i][2] * n[2][j] + m[i][3] * n[3][j], One)]]

\* the orientation updateHDRISettings gives the model container: Y, then X,
\* then Z about the world axes, from the three sliders
WorldRotation(d) ==
    multiply(multiply(multiply(Identity3, makeRotationY(DegToRad(d.y))),
                      makeRotationX(DegToRad(d.x))),
             makeRotationZ(DegToRad(d.z)))

\* updateHDRISettings: environmentRotation and backgroundRotation follow hdriRotation
rotateEnvironment(s) ==
    [s EXCEPT !.scene.environmentRotation = <<0, DegToRad(s.viewer.hdriRotation), 0>>,
              !.scene.backgroundRotation = <<0, DegToRad(s.viewer.hdriRotation), 0>>]

\* a regeneration that bakes the environment at rotation 0, whatever the slider
regenerateEnvironmentUnrotated(s, forceRegenerate) ==
    IF s.viewer.originalHDRITexture # Null /\ forceRegenerate
    THEN generateRotatedEnvironment(s, s.viewer.originalHDRITexture, 0)
    ELSE s

\* updateHDRISettings: if (this.originalHDRITexture && forceRegenerate)
regenerateEnvironment(s, forceRegenerate) ==
    IF s.viewer.originalHDRITexture # Null /\ forceRegenerate
    THEN generateRotatedEnvironment(s, s.viewer.originalHDRITexture,
                                    DegToRad(s.viewer.hdriRotation))
    ELSE s

\* updateHDRISettings: tone mapping, only if the HDRI background is visible
updateToneMapping(s) ==
    IF s.viewer.hdriBackgroundVisible
    THEN [s EXCEPT !.renderer.toneMapping = "ACESFilmicToneMapping",
                   !.renderer.toneMappingExposure = s.viewer.hdriIntensity]
    ELSE s

\* updateHDRISettings: the model container takes the rotation of the sliders
rotateModelContainer(s) == [s EXCEPT !.modelContainer.rotation = WorldRotation(s.dom)]

updateHDRISettings(s, forceRegenerate) ==
    rotateModelContainer(
        updateSunLightPosition(
            updateToneMapping(regenerateEnvironment(rotateEnvironment(s), forceRegenerate))))

\* success callback: the stored original is disposed and replaced by a clone
storeOriginalTexture(s, texture) ==
    [(IF s.viewer.originalHDRITexture # Null
      THEN dispose(s, s.viewer.originalHDRITexture) ELSE s)
     EXCEPT !.viewer.originalHDRITexture = clone(texture, FreshId(Heap(s) \cup {texture}))]

\* success callback: the analysed direction becomes the sun direction
storeAnalyzedDirection(s) == [s EXCEPT !.viewer.sunDirection = AnalyzedDirection(s)]

\* a choice of the sun direction that analyses the texture whether or not the
\* table has an entry for the preset
setSunDirectionAnalyzing(s, presetName, texture) ==
    storeAnalyzedDirection(analyzeHDRIBrightestPoint(s, texture))

\* success callback: the sun direction from the calibration table, or from the
\* analysis of the texture when the table has no entry for the preset
setSunDirection(s, presetName, texture) ==
    IF presetName \in DOMAIN hdriSunPositions
    THEN [s EXCEPT !.viewer.sunDirection =
                       normalize(hdriSunPositions[presetName].direction)]
    ELSE storeAnalyzedDirection(analyzeHDRIBrightestPoint(s, texture))

\* success callback: generateRotatedEnvironment(texture, this.hdriRotation * PI / 180)
generateLoadedEnvironment(s, texture) ==
    generateRotatedEnvironment(s, texture, DegToRad(s.viewer.hdriRotation))

\* the success callback of rgbeLoader.load in loadHDRI(presetName)
onHDRILoaded(s, presetName, texture) ==
    updateSunLightPosition(
        generateLoadedEnvironment(
            setSunDirection(storeOriginalTexture(s, texture), presetName, texture),
            texture))

\* analyzeHDRIBrightestPoint on a texture whose brightest sample lies at the
\* UV (u, v): the scan of the buffer is not run, its result is given
analyzeFound(s, u, v) ==
    [s EXCEPT !.brightest = [maxLuminance |-> One, brightestU |-> u, brightestV |-> v],
              !.analyzeCalls = @ + 1]

\* the success callback of loadHDRI('custom') for such a texture
onHDRILoadedFound(s, texture, u, v) ==
    updateSunLightPosition(
        generateLoadedEnvironment(
            storeAnalyzedDirection(analyzeFound(storeOriginalTexture(s, texture), u, v)),
            texture))

\* an error callback that falls back to the default sun direction
onHDRIErrorResets(s, presetName) ==
    updateSunLightPosition([s EXCEPT !.viewer.sunDirection = Vector3(0, One, 0)])

\* the error callback of rgbeLoader.load in loadHDRI(presetName): console.error
\* and alert
onHDRIError(s, presetName) == s

\* ------------------------------------------------------------------------
\* Browser timers
\* ------------------------------------------------------------------------

\* the model a loader hands to its success callback: the id-th upload
Model(id, size) == [kind |-> "model", id |-> id, size |-> size]

\* clearModel: the current model is removed from the container and disposed
clearModel(s) ==
    IF s.viewer.currentModel = Null THEN s
    ELSE [s EXCEPT !.modelContainer.children = @ \ {s.viewer.currentModel},
                   !.models.disposed = @ \cup {s.viewer.currentModel},
                   !.viewer.currentModel = Null]

\* loadGLTF / loadFBX: the loader starts to load the file
startModelLoad(s, size) ==
    [s EXCEPT !.models.uploads = @ + 1,
              !.models.inflight = Append(@, Model(s.models.uploads + 1, size))]

\* loadModel(file): the current model is cleared, and a file of a supported
\* format is handed to its loader
loadModel(s, format, size) ==
    IF format \in {"gltf", "fbx"} THEN startModelLoad(clearModel(s), size)
    ELSE clearModel(s)

\* autoScaleModel: the container is scaled so that the model measures 2 units
autoScaleModel(s) ==
    [s EXCEPT !.modelContainer.scale = RoundDiv(2 * One * One, s.viewer.currentModel.size)]

\* processLoadedModel: the current model is added to the container, centred
\* within itself, and the container scaled to fit
processLoadedModel(s) ==
    IF s.viewer.currentModel = Null THEN s
    ELSE autoScaleModel([s EXCEPT !.modelContainer.children = @ \cup {s.viewer.currentModel}])

\* the success callback of gltfLoader.load / fbxLoader.load
onModelLoaded(s, model) ==
    processLoadedModel([s EXCEPT !.viewer.currentModel = model])

\* the error callback of gltfLoader.load / fbxLoader.load: a log line
onModelError(s) == s

\* the number of degrees, from -90 to 90, whose sine is the least one to reach v
AsinCeil(v) ==
    CHOOSE d \in -90..90 :
        /\ Sin(DegToRad(d)) >= v
        /\ d > -90 => Sin(DegToRad(d - 1)) < v

\* Math.asin(clamp(v, -1, 1)) in degrees, to the nearest degree
AsinDeg(v) ==
    IF v >= One THEN 90
    ELSE IF v <= -One THEN -90
    ELSE IF Abs(Sin(DegToRad(AsinCeil(v) - 1)) - v) < Abs(Sin(DegToRad(AsinCeil(v))) - v)
         THEN AsinCeil(v) - 1
         ELSE AsinCeil(v)

\* Euler.setFromRotationMatrix(m, 'XYZ'): the y angle, asin(clamp(m13, -1, 1)),
\* in degrees
EulerY(m) == AsinDeg(m[1][3])

\* animate: the angle of one frame, 0.01 * this.turntableSpeed
TurntableAngle(s) == RoundDiv(100 * s.viewer.turntableSpeed, One)

\* Object3D.rotateOnWorldAxis(new THREE.Vector3(0, 1, 0), angle)
rotateOnWorldAxisY(s, angle) ==
    [s EXCEPT !.modelContainer.rotation = multiply(makeRotationY(angle), @),
              !.models.frames = @ + 1]

\* animate: the rotation-y slider takes modelContainer.rotation.y, in degrees,
\* normalized to 0..360
updateRotationYSlider(s) == [s EXCEPT !.dom.y = EulerY(s.modelContainer.rotation) % 360]

\* animate: the turntable, if it is enabled and a model is loaded
turntable(s) ==
    IF s.viewer.turntableEnabled /\ s.viewer.currentModel # Null
    THEN updateRotationYSlider(rotateOnWorldAxisY(s, TurntableAngle(s)))
    ELSE s

\* 'change' on turntable-toggle
onTurntableToggle(s, checked) == [s EXCEPT !.viewer.turntableEnabled = checked]

\* 'input' on turntable-speed
onTurntableSpeedInput(s, value) == [s EXCEPT !.viewer.turntableSpeed = value]

\* 'input' on position-y
onPositionYInput(s, value) == [s EXCEPT !.modelContainer.position[2] = value]

\* renderer.setSize(width, height, false): the drawing buffer is resized
setSize(s, width, height) == [s EXCEPT !.canvas = [width |-> width, height |-> height]]

\* renderBackgroundLayer: the 2D background layer is drawn, by the background
\* manager or, without it, filled with the background colour
renderBackgroundLayer(s) == [s EXCEPT !.backgroundCanvas = "drawn"]

\* render(): this.renderer.render(this.scene, this.camera)
rendererRender(s) == [s EXCEPT !.rendered = TRUE]

\* animate(): this.animationFrameId = requestAnimationFrame(() => this.animate())
requestAnimationFrame(s) == [s EXCEPT !.window.frame = TRUE]

\* render(): the condition under which the background layer is drawn
RenderDrawsBackgroundLayer(s) ==
    ~s.viewer.hdriBackgroundVisible \/ s.viewer.currentHDRI = Null

\* render(): the background layer if the HDRI is not shown, then the scene
render(s) ==
    rendererRender(IF RenderDrawsBackgroundLayer(s) THEN renderBackgroundLayer(s) ELSE s)

\* animate(): the next frame is requested, the turntable turns, and the
\* scene is rendered
animate(s) == render(turntable(requestAnimationFrame(s)))

\* dispose(): if (this.animationFrameId) cancelAnimationFrame(this.animationFrameId);
\* animationFrameId is set from init() on
cancelAnimationFrame(s) == [s EXCEPT !.window.frame = FALSE]

\* dispose(): this.renderer.dispose()
disposeRenderer(s) == [s EXCEPT !.renderer.disposed = TRUE]

\* dispose(): this.pmremGenerator.dispose()
disposePmremGenerator(s) == [s EXCEPT !.viewer.pmremGenerator.disposed = TRUE]

\* dispose() of the viewer: the pending frame is cancelled, the model cleared,
\* the renderer and the PMREM generator disposed
disposeViewer(s) ==
    disposePmremGenerator(disposeRenderer(clearModel(cancelAnimationFrame(s))))

\* onCanvasResized / onWindowResize: the canvases and the renderer are forced
\* back to Full HD and the background is redrawn
onCanvasResized(s) == updateCanvasBackground(setSize(s, HDWidth, HDHeight))

\* a layer drawn to a 2D canvas: an image of the size source, drawn over the
\* area width x height
Layer(name, source, width, height) ==
    [layer |-> name, source |-> source, width |-> width, height |-> height]

\* ctx.drawImage / drawToCanvas on the target canvas
drawLayer(s, name, source, width, height) ==
    [s EXCEPT !.targetCanvas.drawn = Append(@, Layer(name, source, width, height))]

\* renderHighResolution: targetCanvas.width = ..., targetCanvas.height = ...;
\* setting the size of a canvas clears it
resizeTarget(s, width, height) ==
    [s EXCEPT !.targetCanvas = [width |-> width, height |-> height, drawn |-> <<>>]]

\* renderHighResolution, STEP 1: the condition under which the background is drawn
ExportDrawsBackground(s) == s.window.Chatooly /\ ~s.viewer.hdriBackgroundVisible

\* renderHighResolution, STEP 1: the background manager draws the background
\* over the original area, under ctx.scale(scale, scale)
drawExportBackground(s, scale, originalWidth, originalHeight) ==
    IF ExportDrawsBackground(s)
    THEN drawLayer(s, "background", [width |-> originalWidth, height |-> originalHeight],
                   originalWidth * scale, originalHeight * scale)
    ELSE s

\* renderHighResolution, STEP 2 and 3: the scene is rendered at the size of
\* the renderer and drawn to the target at scaledWidth x scaledHeight
compositeScene(s, scaledWidth, scaledHeight) ==
    drawLayer(s, "scene", s.canvas, scaledWidth, scaledHeight)

\* an export that leaves the renderer at the scaled size
renderHighResolutionUnrestored(s, scale, originalWidth, originalHeight) ==
    compositeScene(
        setSize(drawExportBackground(
                    resizeTarget(s, originalWidth * scale, originalHeight * scale),
                    scale, originalWidth, originalHeight),
                originalWidth * scale, originalHeight * scale),
        originalWidth * scale, originalHeight * scale)

\* renderHighResolution past its guard, with the original size it read
renderHighResolutionFrom(s, scale, originalWidth, originalHeight) ==
    setSize(
        compositeScene(
            setSize(drawExportBackground(
                        resizeTarget(s, originalWidth * scale, originalHeight * scale),
                        scale, originalWidth, originalHeight),
                    originalWidth * scale, originalHeight * scale),
            originalWidth * scale, originalHeight * scale),
        originalWidth, originalHeight)

\* window.renderHighResolution(targetCanvas, scale)
renderHighResolution(s, scale) ==
    IF ~s.window.viewer THEN s
    ELSE renderHighResolutionFrom(s, scale, s.canvas.width, s.canvas.height)

\* a clearTimeout that cancels nothing
clearTimeoutIgnored(s, handle) == s

\* clearTimeout(handle): a handle that already fired or was cleared is ignored
clearTimeout(s, handle) == [s EXCEPT !.timers = @ \ {handle}]

\* the handle the next setTimeout returns: the least no pending timer has
NextHandle(s) ==
    CHOOSE n \in 1 .. (Cardinality(s.timers) + 1) :
        n \notin s.timers /\ \A m \in 1 .. (n - 1) : m \in s.timers

\* setTimeout(callback, 300): a new pending timer under the handle NextHandle(s)
setTimeout(s) == [s EXCEPT !.timers = @ \cup {NextHandle(s)}]

\* ------------------------------------------------------------------------
\* Event handlers of setupEventListeners, as state transformers
\* ------------------------------------------------------------------------

\* a handler that leaves the previous timer pending
cancelRotationTimerSkipped(s) == s

\* hdri-rotation handler: if (this.hdriRotationTimer) clearTimeout(...)
cancelRotationTimer(s) ==
    IF s.viewer.hdriRotationTimer # NoTimer
    THEN clearTimeout(s, s.viewer.hdriRotationTimer) ELSE s

\* hdri-rotation handler: this.hdriRotationTimer = setTimeout(..., 300)
armRotationTimer(s) == [setTimeout(s) EXCEPT !.viewer.hdriRotationTimer = NextHandle(s)]

\* an hdri-rotation handler that stores the value and arms the timer, without
\* the fast path
onHdriRotationInputDeferred(s, value) ==
    armRotationTimer(cancelRotationTimer([s EXCEPT !.viewer.hdriRotation = value]))

\* 'input' on hdri-rotation
onHdriRotationInput(s, value) ==
    armRotationTimer(
        cancelRotationTimer(
            updateHDRISettings([s EXCEPT !.viewer.hdriRotation = value], FALSE)))

\* a timer callback that takes the fast path again and regenerates nothing
onHdriRotationTimerFast(s, t) ==
    updateHDRISettings([s EXCEPT !.timers = @ \ {t}], FALSE)

\* the callback the hdri-rotation handler hands to setTimeout, for timer t
onHdriRotationTimer(s, t) ==
    updateHDRISettings([s EXCEPT !.timers = @ \ {t}], TRUE)

\* an hdri-intensity handler that regenerates the environment on every input
onHdriIntensityInputRegenerating(s, value) ==
    updateHDRISettings([s EXCEPT !.viewer.hdriIntensity = value], TRUE)

\* 'input' on hdri-intensity
onHdriIntensityInput(s, value) ==
    updateHDRISettings([s EXCEPT !.viewer.hdriIntensity = value], FALSE)

\* 'change' on sun-enabled
onSunEnabledChange(s, checked) ==
    updateSunLightPosition([s EXCEPT !.viewer.sunEnabled = checked])

\* 'input' on sun-intensity
onSunIntensityInput(s, value) ==
    updateSunLightPosition([s EXCEPT !.viewer.sunIntensity = value])

\* a handler that stores the checkbox and redraws nothing
onHdriBackgroundVisibleChangeStored(s, checked) ==
    [s EXCEPT !.viewer.hdriBackgroundVisible = checked]

\* 'change' on hdri-background-visible
onHdriBackgroundVisibleChange(s, checked) ==
    updateCanvasBackground([s EXCEPT !.viewer.hdriBackgroundVisible = checked])

\* 'change' / 'input' / 'click' on transparent-bg, bg-color, bg-image,
\* clear-bg-image or bg-fit: the new setting goes to the background manager
\* of the page, and the viewer redraws its background
onBackgroundControlChange(s) == updateCanvasBackground(s)

\* 'input' on rotation-x, rotation-y or rotation-z: the slider holds the new
\* value when the handler runs
onModelRotationInput(s, axis, value) ==
    updateHDRISettings([s EXCEPT !.dom[axis] = value], FALSE)

\* ------------------------------------------------------------------------
\* The state machine
\* ------------------------------------------------------------------------

\* the images the HDR file of a preset can hold
ImagesOf(presetName) ==
    IF presetName \in DOMAIN hdriSunPositions THEN {FlatImage(Red)} ELSE Images

\* a load in flight: loadHDRI(presetName) of a file holding image
Request(presetName, image) == [preset |-> presetName, image |-> image]

\* seq without its i-th element
RemoveAt(seq, i) == SubSeq(seq, 1, i - 1) \o SubSeq(seq, i + 1, Len(seq))

\* a canvas nothing was drawn to, of the default size of a canvas element
BlankCanvas == [width |-> 300, height |-> 150, drawn |-> <<>>]

\* the page once DOMContentLoaded has constructed the viewer, the Chatooly
\* library present and the first animation frame requested by init()
PageLoaded == [viewer |-> TRUE, Chatooly |-> TRUE, frame |-> TRUE]

\* the viewer after the constructor and init(), but for the default HDRI load
InitViewer ==
    /\ viewer = [hdriIntensity |-> One, hdriRotation |-> 0, hdriBackgroundVisible |-> FALSE,
                 currentHDRI |-> Null, originalHDRITexture |-> Null,
                 hdriRotationTimer |-> NoTimer,
                 sunDirection |-> Vector3(0, One, 0), sunIntensity |-> 2 * One,
                 sunEnabled |-> TRUE,
                 currentModel |-> Null, turntableEnabled |-> FALSE,
                 turntableSpeed |-> One,
                 pmremGenerator |-> [disposed |-> FALSE]]
    /\ sunLight = [position |-> PlaceholderPosition, target |-> Origin,
                   intensity |-> 2 * One, visible |-> TRUE]
    /\ scene = [environment |-> Null, background |-> Null,
                environmentRotation |-> <<0, 0, 0>>, backgroundRotation |-> <<0, 0, 0>>]
    /\ renderer = [toneMapping |-> "NoToneMapping", toneMappingExposure |-> One,
                   clearAlpha |-> 0, disposed |-> FALSE]
    /\ backgroundCanvas = "drawn"
    /\ modelContainer = [rotation |-> Identity3, position |-> Origin, scale |-> One,
                         children |-> {}]
    /\ models = [uploads |-> 0, inflight |-> <<>>, disposed |-> {}, frames |-> 0]
    /\ dom = [x |-> 0, y |-> 0, z |-> 0]
    /\ disposed = {}
    /\ timers = {}
    /\ canvas = [width |-> HDWidth, height |-> HDHeight]
    /\ targetCanvas = BlankCanvas
    /\ handler = Did(State, "none")

\* 'change' on hdri-preset: loadHDRI(presetName) starts a load
LoadHDRI(presetName, image) ==
    /\ Len(inflight) < MaxInflight
    /\ inflight' = Append(inflight, Request(presetName, image))
    /\ Commit(State, "none")

\* the texture the loader decoded for the i-th load in flight, a new object
LoadedTexture(i) == Texture(FreshId(Heap(State)), inflight[i].preset, inflight[i].image)

\* the i-th load in flight succeeds: the loader calls the success callback
HDRILoaded(i) ==
    /\ i \in 1..Len(inflight)
    /\ Commit(onHDRILoaded(State, inflight[i].preset, LoadedTexture(i)), "loaded")
    /\ inflight' = RemoveAt(inflight, i)

\* the i-th load in flight, of a custom file, succeeds with a texture whose
\* brightest sample lies at the UV (u, v)
HDRILoadedFound(i, u, v) ==
    /\ i \in 1..Len(inflight)
    /\ inflight[i].preset \notin DOMAIN hdriSunPositions
    /\ Commit(onHDRILoadedFound(State, LoadedTexture(i), u, v), "loaded")
    /\ inflight' = RemoveAt(inflight, i)

\* the i-th load in flight fails: the loader calls the error callback
HDRILoadError(i) ==
    /\ i \in 1..Len(inflight)
    /\ Commit(onHDRIError(State, inflight[i].preset), "failed")
    /\ inflight' = RemoveAt(inflight, i)

\* the user moves the hdri-rotation slider
HdriRotationInput(value) ==
    /\ Commit(onHdriRotationInput(State, value), "none")
    /\ UNCHANGED inflight

\* the debounce timer t expires
HdriRotationTimerFired(t) ==
    /\ t \in timers
    /\ Commit(onHdriRotationTimer(State, t), "none")
    /\ UNCHANGED inflight

\* the user moves the hdri-intensity slider
HdriIntensityInput(value) ==
    /\ Commit(onHdriIntensityInput(State, value), "none")
    /\ UNCHANGED inflight

\* the user ticks or unticks sun-enabled
SunEnabledChange(checked) ==
    /\ Commit(onSunEnabledChange(State, checked), "none")
    /\ UNCHANGED inflight

\* the user moves the sun-intensity slider
SunIntensityInput(value) ==
    /\ Commit(onSunIntensityInput(State, value), "none")
    /\ UNCHANGED inflight

\* the user ticks or unticks hdri-background-visible
HdriBackgroundVisibleChange(checked) ==
    /\ Commit(onHdriBackgroundVisibleChange(State, checked), "none")
    /\ UNCHANGED inflight

\* the user moves one of the rotation-x / rotation-y / rotation-z sliders
ModelRotationInput(axis, value) ==
    /\ Commit(onModelRotationInput(State, axis, value), "none")
    /\ UNCHANGED inflight

\* DOMContentLoaded: the viewer is constructed and init() starts the load of
\* the default HDRI
DOMContentLoaded ==
    /\ ~window.viewer
    /\ Commit([State EXCEPT !.window.viewer = TRUE, !.window.frame = TRUE], "none")
    /\ inflight' = <<Request("studio", FlatImage(Red))>>

\* 'change' on model-upload: loadModel(file), for a file of the given format
\* holding a model of the given size
ModelUpload(format, size) ==
    /\ models.uploads < MaxUploads
    /\ Commit(loadModel(State, format, size), "none")
    /\ UNCHANGED inflight

\* state without the i-th model load in flight
ModelLoadDone(s, i) == [s EXCEPT !.models.inflight = RemoveAt(@, i)]

\* the i-th model load in flight succeeds
ModelLoaded(i) ==
    /\ i \in 1..Len(models.inflight)
    /\ Commit(onModelLoaded(ModelLoadDone(State, i), models.inflight[i]), "none")
    /\ UNCHANGED inflight

\* the i-th model load in flight fails
ModelLoadError(i) ==
    /\ i \in 1..Len(models.inflight)
    /\ Commit(onModelError(ModelLoadDone(State, i)), "none")
    /\ UNCHANGED inflight

\* the user ticks or unticks turntable-toggle
TurntableToggle(checked) ==
    /\ Commit(onTurntableToggle(State, checked), "none")
    /\ UNCHANGED inflight

\* the user moves the turntable-speed slider
TurntableSpeedInput(value) ==
    /\ Commit(onTurntableSpeedInput(State, value), "none")
    /\ UNCHANGED inflight

\* the user moves the position-y slider
PositionYInput(value) ==
    /\ Commit(onPositionYInput(State, value), "none")
    /\ UNCHANGED inflight

\* an animation frame
AnimationFrame ==
    /\ window.viewer
    /\ window.frame
    /\ models.frames < MaxFrames
    /\ Commit(animate(State), "none")
    /\ UNCHANGED inflight

\* viewer.dispose() is called, once
Dispose ==
    /\ window.viewer
    /\ ~renderer.disposed
    /\ Commit(disposeViewer(State), "disposed")
    /\ UNCHANGED inflight

\* 'chatooly:canvas-resized' or a resize of the window
CanvasResized ==
    /\ window.viewer
    /\ Commit(onCanvasResized(State), "none")
    /\ UNCHANGED inflight

\* the export calls window.renderHighResolution(targetCanvas, scale) with a
\* canvas of its own
RenderHighResolution(scale) ==
    /\ Commit(renderHighResolution(State, scale),
              IF window.viewer THEN "exported" ELSE "none")
    /\ UNCHANGED inflight

\* the user changes one of the background controls
BackgroundControlChange ==
    /\ Commit(onBackgroundControlChange(State), "none")
    /\ UNCHANGED inflight

\* ------------------------------------------------------------------------
\* History of the loads and of the rotation bursts
\* ------------------------------------------------------------------------

\* latest while the most recent loadHDRI call is in flight: it is the last
\* element of inflight
LatestInFlight == [status |-> "inflight", preset |-> "none", image |-> FlatImage(Black)]

\* latest after the i-th load in flight completed with the given status: the
\* load the most recent loadHDRI call started is the last one in flight
LatestAfter(i, status) ==
    IF i = Len(inflight) /\ latest.status = "inflight"
    THEN IF status = "loaded"
         THEN [status |-> status, preset |-> inflight[i].preset, image |-> inflight[i].image]
         ELSE [LatestInFlight EXCEPT !.status = status]
    ELSE latest

\* no rotation input yet
NoBurst ==
    [events |-> 0, regens |-> 0, regenRotation |-> 0, lastInput |-> 0, hdriLoaded |-> FALSE]

\* burst after a rotation input: the input continues the burst when the timer
\* the previous input armed is still pending, and starts a burst otherwise;
\* events counts the inputs of the burst up to 2
BurstAfterInput(value) ==
    IF viewer.hdriRotationTimer \in timers
    THEN [burst EXCEPT !.events = IF @ < 2 THEN @ + 1 ELSE @, !.lastInput = value]
    ELSE [NoBurst EXCEPT !.events = 1, !.lastInput = value]

\* burst after a timer fired: the regenerations it made, the rotation of the
\* last one, and whether an HDRI was loaded when it fired
BurstAfterTimer ==
    [burst EXCEPT !.regens = @ + Len(handler'.regenCalls),
                  !.regenRotation = IF handler'.regenCalls = <<>> THEN @
                                    ELSE handler'.regenCalls[Len(handler'.regenCalls)],
                  !.hdriLoaded = (viewer.originalHDRITexture # Null)]

\* the kinds of GPU-backed objects the HDRI pipeline creates
Kinds == {"texture", "clone", "envMap"}

\* nothing created yet
NoneLive == [k \in Kinds |-> 0]

\* the objects of kind k among objects
OfKind(objects, k) == {o \in objects : o.kind = k}

\* live after a handler that ends in s and was handed the objects in loaded:
\* the objects that are new to the heap are counted, those the handler called
\* dispose() on are discounted
LiveAfter(s, loaded) ==
    [k \in Kinds |->
        live[k] + Cardinality(OfKind((Referenced(s) \cup loaded) \ Heap(State), k))
                - Cardinality(OfKind(s.disposed \ disposed, k))]

\* ------------------------------------------------------------------------
\* Specifications
\* ------------------------------------------------------------------------

\* init() has called loadDefaultHDRI(): the load of 'studio' is in flight
Init ==
    /\ window = PageLoaded
    /\ InitViewer
    /\ inflight = <<Request("studio", FlatImage(Red))>>
    /\ latest = LatestInFlight
    /\ burst = NoBurst
    /\ live = NoneLive

\* The HDRI pipeline: preset changes, load completions, rotation inputs and
\* the debounce timer, with the history of the loads and of the bursts.
Next ==
    \/ /\ \E p \in Presets : \E image \in ImagesOf(p) : LoadHDRI(p, image)
       /\ latest' = LatestInFlight
       /\ UNCHANGED <<live, burst>>
    \/ \E i \in 1..Len(inflight) :
          /\ HDRILoaded(i)
          /\ latest' = LatestAfter(i, "loaded")
          /\ UNCHANGED <<live, burst>>
    \/ \E i \in 1..Len(inflight) :
          /\ HDRILoadError(i)
          /\ latest' = LatestAfter(i, "failed")
          /\ UNCHANGED <<live, burst>>
    \/ \E value \in Rotations :
          /\ HdriRotationInput(value)
          /\ burst' = BurstAfterInput(value)
          /\ UNCHANGED <<live, latest>>
    \/ \E t \in timers :
          /\ HdriRotationTimerFired(t)
          /\ burst' = BurstAfterTimer
          /\ UNCHANGED <<live, latest>>

Spec == Init /\ [][Next]_vars

\* The rotation of the sun direction: a custom file is loaded, its brightest
\* sample anywhere on the grid of UVs, and the slider is set to right angles.
InitRotation ==
    /\ window = PageLoaded
    /\ InitViewer
    /\ inflight = <<Request("custom", FlatImage(Black))>>
    /\ latest = LatestInFlight
    /\ burst = NoBurst
    /\ live = NoneLive

NextRotation ==
    /\ \/ \E i \in 1..Len(inflight) : \E u \in BrightestUs : \E v \in BrightestVs :
             HDRILoadedFound(i, u, v)
       \/ \E value \in RightAngles : HdriRotationInput(value)
       \/ \E t \in timers : HdriRotationTimerFired(t)
    /\ UNCHANGED <<live, latest, burst>>

SpecRotation == InitRotation /\ [][NextRotation]_vars

\* The export: the page before and after the viewer is constructed, with
\* or without the Chatooly library, the default load, the HDRI background
\* checkbox, frames, resizes, background controls and exports.
InitExport ==
    /\ \E library \in BOOLEAN : window = [viewer |-> FALSE, Chatooly |-> library, frame |-> FALSE]
    /\ InitViewer
    /\ inflight = <<>>
    /\ latest = LatestInFlight
    /\ burst = NoBurst
    /\ live = NoneLive

NextExport ==
    /\ \/ DOMContentLoaded
       \/ \E scale \in Scales : RenderHighResolution(scale)
       \/ /\ window.viewer
          /\ \/ \E i \in 1..Len(inflight) : HDRILoaded(i)
             \/ \E i \in 1..Len(inflight) : HDRILoadError(i)
             \/ \E checked \in BOOLEAN : HdriBackgroundVisibleChange(checked)
             \/ \E value \in Rotations : HdriRotationInput(value)
             \/ \E t \in timers : HdriRotationTimerFired(t)
             \/ BackgroundControlChange
       \/ AnimationFrame
       \/ CanvasResized
    /\ UNCHANGED <<live, latest, burst>>

SpecExport == InitExport /\ [][NextExport]_vars

\* The model loads: uploads and loader callbacks in any order, the position
\* slider, and the completion of the default HDRI load.
NextModel ==
    /\ \/ \E format \in Formats : \E size \in ModelSizes : ModelUpload(format, size)
       \/ \E i \in 1..Len(models.inflight) : ModelLoaded(i)
       \/ \E i \in 1..Len(models.inflight) : ModelLoadError(i)
       \/ \E value \in Positions : PositionYInput(value)
       \/ \E i \in 1..Len(inflight) : HDRILoaded(i)
    /\ UNCHANGED <<live, latest, burst>>

SpecModel == Init /\ [][NextModel]_vars

\* The HDRI resources: preset changes, load completions, rotation inputs, the
\* debounce timer and the background checkbox, with the count of the objects
\* created and not disposed.
NextResources ==
    /\ \/ /\ live.texture + Len(inflight) < MaxLoads
          /\ \E p \in DOMAIN hdriSunPositions : LoadHDRI(p, FlatImage(Red))
          /\ UNCHANGED live
       \/ \E i \in 1..Len(inflight) :
             /\ HDRILoaded(i)
             /\ live' = LiveAfter(onHDRILoaded(State, inflight[i].preset, LoadedTexture(i)),
                                  {LoadedTexture(i)})
       \/ \E i \in 1..Len(inflight) :
             /\ HDRILoadError(i)
             /\ live' = LiveAfter(onHDRIError(State, inflight[i].preset), {})
       \/ \E value \in {0, 90} :
             /\ HdriRotationInput(value)
             /\ live' = LiveAfter(onHdriRotationInput(State, value), {})
       \/ \E t \in timers :
             /\ HdriRotationTimerFired(t)
             /\ live' = LiveAfter(onHdriRotationTimer(State, t), {})
       \/ \E checked \in BOOLEAN :
             /\ HdriBackgroundVisibleChange(checked)
             /\ live' = LiveAfter(onHdriBackgroundVisibleChange(State, checked), {})
    /\ UNCHANGED <<latest, burst>>

SpecResources == Init /\ [][NextResources]_vars

\* The disposal: the viewer runs (frames, rotation inputs and their timer, one
\* model upload, the default HDRI load) until dispose() is called; from then
\* on no input arrives, and what is pending (timer, frame, loads) runs.
NextDispose ==
    /\ \/ Dispose
       \/ AnimationFrame
       \/ \E t \in timers : HdriRotationTimerFired(t)
       \/ \E i \in 1..Len(inflight) : HDRILoaded(i)
       \/ \E i \in 1..Len(inflight) : HDRILoadError(i)
       \/ \E i \in 1..Len(models.inflight) : ModelLoaded(i)
       \/ /\ ~renderer.disposed
          /\ \/ \E value \in {0, 90} : HdriRotationInput(value)
             \/ models.uploads = 0 /\ \E size \in ModelSizes : ModelUpload("gltf", size)
    /\ UNCHANGED <<live, latest, burst>>

SpecDispose == Init /\ [][NextDispose]_vars

\* The turntable: one model is uploaded and loaded, the turntable is switched
\* and its speed set, frames turn the container, and the HDRI sliders move.
NextTurntable ==
    /\ \/ models.uploads = 0 /\ \E size \in ModelSizes : ModelUpload("gltf", size)
       \/ \E i \in 1..Len(models.inflight) : ModelLoaded(i)
       \/ \E checked \in BOOLEAN : TurntableToggle(checked)
       \/ \E value \in TurntableSpeeds : TurntableSpeedInput(value)
       \/ AnimationFrame
       \/ \E i \in 1..Len(inflight) : HDRILoaded(i)
       \/ \E value \in {0, 45} : HdriRotationInput(value)
       \/ \E t \in timers : HdriRotationTimerFired(t)
       \/ \E value \in HdriIntensities : HdriIntensityInput(value)
    /\ UNCHANGED <<live, latest, burst>>

SpecTurntable == Init /\ [][NextTurntable]_vars

\* the debounce timer expires, in the pipeline with its history
RotationTimerExpires ==
    \E t \in timers :
        /\ HdriRotationTimerFired(t)
        /\ burst' = BurstAfterTimer
        /\ UNCHANGED <<live, latest>>

\* RotationTimerExpires is enabled exactly when a timer is pending: every
\* pending timer can expire, and its expiry takes it out of timers
RotationTimerEnabled == timers # {}

\* The pipeline under the scheduling of the browser: a timer that stays
\* armed expires (setTimeout(..., 300) runs its callback unless cleared).
\* This is weak fairness of RotationTimerExpires, WF_vars(RotationTimerExpires),
\* with ENABLED <<RotationTimerExpires>>_vars written out as RotationTimerEnabled.
SpecDebounce ==
    Spec /\ ([]<>(~RotationTimerEnabled) \/ []<><<RotationTimerExpires>>_vars)

\* The sun controls on top of the pipeline, with one load at a time; the
\* history is not kept.
NextSun ==
    /\ \/ inflight = <<>> /\ \E p \in Presets : \E image \in ImagesOf(p) : LoadHDRI(p, image)
       \/ \E i \in 1..Len(inflight) : HDRILoaded(i)
       \/ \E i \in 1..Len(inflight) : HDRILoadError(i)
       \/ \E value \in Rotations : HdriRotationInput(value)
       \/ \E t \in timers : HdriRotationTimerFired(t)
       \/ \E value \in HdriIntensities : HdriIntensityInput(value)
       \/ \E checked \in BOOLEAN : SunEnabledChange(checked)
       \/ \E value \in SunIntensities : SunIntensityInput(value)
    /\ UNCHANGED <<live, latest, burst>>

SpecSun == Init /\ [][NextSun]_vars

\* Every control of the lighting panel and the model rotation sliders, with
\* the default HDRI load only; the history is not kept.
NextControls ==
    /\ \/ \E i \in 1..Len(inflight) : HDRILoaded(i)
       \/ \E i \in 1..Len(inflight) : HDRILoadError(i)
       \/ \E value \in Rotations : HdriRotationInput(value)
       \/ \E t \in timers : HdriRotationTimerFired(t)
       \/ \E value \in HdriIntensities : HdriIntensityInput(value)
       \/ \E checked \in BOOLEAN : SunEnabledChange(checked)
       \/ \E value \in SunIntensities : SunIntensityInput(value)
       \/ \E checked \in BOOLEAN : HdriBackgroundVisibleChange(checked)
       \/ \E axis \in {"x", "y", "z"} : \E value \in ModelRotations :
             ModelRotationInput(axis, value)
       \/ BackgroundControlChange
    /\ UNCHANGED <<live, latest, burst>>

SpecControls == Init /\ [][NextControls]_vars

\* The brightest-point scan over every pixel buffer: the load of a file the
\* calibration table has no entry for is in flight, and completes.
InitScan ==
    /\ window = PageLoaded
    /\ InitViewer
    /\ \E buffer \in PixelBuffers : inflight = <<Request("custom", buffer)>>
    /\ latest = LatestInFlight
    /\ burst = NoBurst
    /\ live = NoneLive

NextScan ==
    /\ \E i \in 1..Len(inflight) : HDRILoaded(i)
    /\ UNCHANGED <<live, latest, burst>>

SpecScan == InitScan /\ [][NextScan]_vars

\* ------------------------------------------------------------------------
\* Properties
\* ------------------------------------------------------------------------

\* C1: a burst of N >= 1 hdri-rotation inputs, each arriving while the timer
\* of the previous one is pending, makes no slow-path regeneration while its
\* last timer is pending and, with an HDRI loaded when that timer fires,
\* exactly one, for the rotation of the last input; no other timer is left.
DebounceRegeneratesOnce ==
    /\ timers \subseteq {viewer.hdriRotationTimer}
    /\ burst.events >= 1 =>
          IF viewer.hdriRotationTimer \in timers
          THEN burst.regens = 0
          ELSE burst.hdriLoaded =>
                  /\ burst.regens = 1
                  /\ burst.regenRotation = DegToRad(burst.lastInput)

\* a burst of two or more inputs that ended at 90 degrees with one regeneration
DebounceBurstEnded ==
    /\ burst.events = 2
    /\ burst.lastInput = 90
    /\ burst.hdriLoaded
    /\ burst.regens = 1
    /\ viewer.hdriRotationTimer \notin timers

\* the sun direction a successful load of the file gives
SunDirectionOf(presetName, image) ==
    IF presetName \in DOMAIN hdriSunPositions
    THEN normalize(hdriSunPositions[presetName].direction)
    ELSE LET b == FindBrightest(image)
         IN  equirectUVToDirection(b.brightestU, b.brightestV)

\* C2: once every load has resolved and the most recently requested one
\* succeeded, the environment map, the stored original texture and the sun
\* direction are those of the most recently requested preset.
LatestRequestWins ==
    (inflight = <<>> /\ latest.status = "loaded") =>
        /\ viewer.originalHDRITexture.preset = latest.preset
        /\ viewer.originalHDRITexture.image = latest.image
        /\ scene.environment.preset = latest.preset
        /\ scene.environment.image = latest.image
        /\ viewer.sunDirection = SunDirectionOf(latest.preset, latest.image)

\* C3: the visibility of the sun light equals the sun-enabled flag.
SunVisibleIffEnabled == sunLight.visible = viewer.sunEnabled

\* C4: with the sun enabled and an HDRI loaded, the sun light is at the stored
\* direction rotated about the vertical axis by hdriRotation, times 20, aims at
\* the origin and has the sun-intensity setting.
SunLightSynchronized ==
    (viewer.sunEnabled /\ viewer.originalHDRITexture # Null) =>
        /\ sunLight.position =
              multiplyScalar(applyAxisAngleY(viewer.sunDirection,
                                             DegToRad(viewer.hdriRotation)), distance)
        /\ sunLight.target = Origin
        /\ sunLight.intensity = viewer.sunIntensity

\* the sun enabled at 45 degrees and intensity 3 under the 'sunset' HDRI
SunLightRotated ==
    /\ viewer.sunEnabled
    /\ viewer.originalHDRITexture # Null
    /\ viewer.originalHDRITexture.preset = "sunset"
    /\ viewer.hdriRotation = 45
    /\ viewer.sunIntensity = 3 * One
    /\ sunLight.intensity = 3 * One
    /\ sunLight.position # multiplyScalar(viewer.sunDirection, distance)

LoadFailureRetainsLighting ==
    [][handler'.outcome = "failed" =>
          /\ handler'.analyzeCalls = 0
          /\ scene'.environment = scene.environment
          /\ viewer'.currentHDRI = viewer.currentHDRI
          /\ viewer'.originalHDRITexture = viewer.originalHDRITexture
          /\ viewer'.sunDirection = viewer.sunDirection
          /\ scene'.environmentRotation = scene.environmentRotation
          /\ sunLight'.position = sunLight.position
          /\ sunLight'.intensity = sunLight.intensity]_vars

\* a load failed while the 'sunset' HDRI was lighting the scene at 90 degrees
LoadFailedUnderLighting ==
    /\ handler.outcome = "failed"
    /\ viewer.originalHDRITexture # Null
    /\ viewer.originalHDRITexture.preset = "sunset"
    /\ viewer.hdriRotation = 90
    /\ viewer.sunDirection = hdriSunPositions["sunset"].direction

\* C7: before an HDRI load has succeeded the sun light is at its startup
\* placeholder position.
PlaceholderUntilLoaded ==
    viewer.originalHDRITexture = Null => sunLight.position = PlaceholderPosition

\* the buffer the last successful load analysed
AnalysedBuffer == viewer.originalHDRITexture.image

\* the pixel at row r, column c is the single pixel of maximal luminance
SingleMaximum(buffer, r, c) ==
    \A i \in PixelIndex :
        i # r * sampleWidth + c => Luminance(buffer[i]) < Luminance(buffer[r * sampleWidth + c])

\* the scan returned the UV of the pixel at row r, column c
FoundAt(r, c) ==
    /\ handler.brightest.brightestU = RoundDiv(c * One, sampleWidth)
    /\ handler.brightest.brightestV = One - RoundDiv(r * One, sampleHeight)

\* C8: for a buffer with a single pixel of maximal luminance at row r, column
\* c, the scan returns the UV (c / W, 1 - r / H).
SingleMaximumFound ==
    handler.analyzeCalls = 1 =>
        \A r \in 0..(sampleHeight - 1) : \A c \in 0..(sampleWidth - 1) :
            SingleMaximum(AnalysedBuffer, r, c) => FoundAt(r, c)

\* the single maximum is the last pixel of the buffer, and was found there
LastPixelFound ==
    /\ handler.analyzeCalls = 1
    /\ SingleMaximum(AnalysedBuffer, sampleHeight - 1, sampleWidth - 1)
    /\ handler.brightest.maxLuminance = Luminance(Green)
    /\ FoundAt(sampleHeight - 1, sampleWidth - 1)

\* the pixel at index i is the first, in row-major order, of maximal luminance
FirstMaximum(buffer, i) ==
    /\ \A j \in PixelIndex : Luminance(buffer[j]) <= Luminance(buffer[i])
    /\ \A j \in 0..(i - 1) : Luminance(buffer[j]) < Luminance(buffer[i])

\* C9: for every buffer the scan returns the UV of the first pixel, in
\* row-major order, of maximal luminance; for a uniform buffer, (0, 1).
FirstMaximumFound ==
    handler.analyzeCalls = 1 =>
        /\ \A i \in PixelIndex :
              FirstMaximum(AnalysedBuffer, i) => FoundAt(i \div sampleWidth, i % sampleWidth)
        /\ (\E c \in Colours : AnalysedBuffer = FlatImage(c)) => FoundAt(0, 0)

\* C10: the environment and the background are rotated about the vertical
\* axis by the same angle, hdriRotation in radians.
EnvironmentRotationFollows ==
    /\ scene.environmentRotation = <<0, DegToRad(viewer.hdriRotation), 0>>
    /\ scene.backgroundRotation = scene.environmentRotation

\* the environment rotated by 45 degrees under a loaded HDRI shown as background
EnvironmentRotated ==
    /\ viewer.hdriRotation = 45
    /\ viewer.currentHDRI # Null
    /\ scene.background = viewer.currentHDRI
    /\ scene.environmentRotation[2] = DegToRad(45)
    /\ handler.regenCalls = <<DegToRad(45)>>

\* ------------------------------------------------------------------------
\* C11: the two tiers of the rotation update converge
\* ------------------------------------------------------------------------

\* the state after the timer that the rotation handler armed in s fires,
\* nothing else having happened since
AfterTimer(s) == onHdriRotationTimer(s, s.viewer.hdriRotationTimer)

\* a and b agree on the sun light and on the rotation of the environment
SameLighting(a, b) ==
    /\ a.sunLight.position = b.sunLight.position
    /\ a.sunLight.target = b.sunLight.target
    /\ a.sunLight.intensity = b.sunLight.intensity
    /\ a.sunLight.visible = b.sunLight.visible
    /\ a.scene.environmentRotation = b.scene.environmentRotation

\* the slow path run on the state fast left changes none of the lighting
SlowKeepsFast(fast) == SameLighting(fast, AfterTimer(fast))

\* C11: in every state, for every rotation input, the debounced slow path
\* (updateHDRISettings(true)) run right after the fast path leaves the sun
\* light's position, target, intensity and visibility and the environment
\* rotation as the fast path set them; and when the timer is the only thing
\* that can have run (it just fired and regenerated), the light stands where
\* the fast path put it
TiersConverge ==
    /\ \A value \in Rotations : SlowKeepsFast(onHdriRotationInput(State, value))
    /\ (handler.regenCalls # <<>> /\ handler.outcome = "none") =>
           scene.environmentRotation = <<0, DegToRad(viewer.hdriRotation), 0>>

\* the timer fired at 45 degrees with an HDRI loaded and regenerated it
SlowPathRan ==
    /\ handler.regenCalls = <<DegToRad(45)>>
    /\ handler.outcome = "none"
    /\ viewer.hdriRotation = 45
    /\ scene.environmentRotation = <<0, DegToRad(45), 0>>
    /\ timers = {}

\* ------------------------------------------------------------------------
\* C12: only a load and the debounce timer regenerate the environment
\* ------------------------------------------------------------------------

\* the step is the expiry of a timer: one pending timer fewer
TimerExpired == Cardinality(timers') < Cardinality(timers)

\* C12: a step that calls generateRotatedEnvironment is the completion of an
\* HDRI load or the expiry of the debounce timer; the input handlers (HDRI
\* rotation, HDRI intensity, model rotation, sun controls, background
\* controls) never call it
RegenerationOnlyDeferred ==
    [][handler'.regenCalls # <<>> => (handler'.outcome = "loaded" \/ TimerExpired)]_vars

\* an input handler ran with an HDRI loaded, every slider off its default and
\* the timer still pending, and regenerated nothing
InputWithoutRegeneration ==
    /\ viewer.originalHDRITexture # Null
    /\ handler.outcome = "none"
    /\ handler.regenCalls = <<>>
    /\ viewer.hdriRotation = 45
    /\ viewer.hdriIntensity = 2 * One
    /\ dom.x = 90
    /\ timers # {}

\* ------------------------------------------------------------------------
\* C13: one debounce timer at most
\* ------------------------------------------------------------------------

\* C13: at most one debounce timer is pending, and it is the one the most
\* recent rotation input armed (the handle in hdriRotationTimer): the timer of
\* an earlier input was cancelled and cannot fire after a later input
SingleRotationTimer ==
    /\ Cardinality(timers) <= 1
    /\ \A t \in timers : t = viewer.hdriRotationTimer

\* a second rotation input arrived while the timer of the first was pending:
\* one timer is pending, no regeneration has happened in the burst
TimerRearmed ==
    /\ burst.events = 2
    /\ burst.regens = 0
    /\ burst.lastInput = 45
    /\ timers = {viewer.hdriRotationTimer}

\* ------------------------------------------------------------------------
\* C14: the debounce state machine settles
\* ------------------------------------------------------------------------

\* RotationPending: the timer of the last rotation input is armed
RotationPending == viewer.hdriRotationTimer \in timers

\* Idle after a burst: no timer is pending and, an HDRI being loaded when the
\* timer fired, the burst regenerated once, at the final rotation value
IdleAfterBurst ==
    /\ timers = {}
    /\ burst.events >= 1
    /\ burst.lastInput = viewer.hdriRotation
    /\ burst.hdriLoaded =>
          /\ burst.regens = 1
          /\ burst.regenRotation = DegToRad(viewer.hdriRotation)

RotatedDirection == applyAxisAngleY(viewer.sunDirection, DegToRad(viewer.hdriRotation))

\* C15: rotation consistency over right angles: for the stored direction, the
\* rotation a of the slider and every right angle b, rotating by a and then
\* by b equals rotating once by (a + b) mod 360
RotationComposes ==
    \A b \in RightAngles :
        applyAxisAngleY(RotatedDirection, DegToRad(b))
            = applyAxisAngleY(viewer.sunDirection,
                              DegToRad((viewer.hdriRotation + b) % 360))

\* an oblique direction was rotated by 270 degrees and the light placed there
ObliqueRotated ==
    /\ viewer.sunDirection = <<-7071, -7071, 0>>
    /\ viewer.hdriRotation = 270
    /\ sunLight.position = multiplyScalar(<<0, -7071, -7071>>, distance)

\* the directions Scenario C lists for (1, 0, 0), by the angle in degrees
ScenarioC ==
    [d \in RightAngles |->
        CASE d = 90 -> <<0, 0, -One>>
          [] d = 180 -> <<-One, 0, 0>>
          [] d = 270 -> <<0, 0, One>>
          [] OTHER -> <<One, 0, 0>>]

\* C16: with the sun direction (1, 0, 0), the light stands along (0, 0, -1)
\* at 90 degrees, (-1, 0, 0) at 180, the opposite of the 90-degree result at
\* 270, and (1, 0, 0) at 360 (and at 0)
ScenarioCHolds ==
    (viewer.sunDirection = <<One, 0, 0>> /\ viewer.hdriRotation \in RightAngles) =>
        /\ RotatedDirection = ScenarioC[viewer.hdriRotation]
        /\ sunLight.position = multiplyScalar(ScenarioC[viewer.hdriRotation], distance)
        /\ ScenarioC[270] = multiplyScalar(ScenarioC[90], -1)

\* the direction (1, 0, 0) was rotated by 90 degrees
QuarterTurn ==
    /\ viewer.sunDirection = <<One, 0, 0>>
    /\ viewer.hdriRotation = 90
    /\ sunLight.position = <<0, 0, -(distance * One)>>

\* ------------------------------------------------------------------------
\* C17: the sun direction is a unit vector
\* ------------------------------------------------------------------------

\* the UVs the conversion is checked over: 0, 1/8, ..., 1
UVGrid == {(k * One) \div 8 : k \in 0..8}

\* |v| = 1 up to the rounding of the fixed point (2 units of 1 / One)
IsUnit(v) == Abs(Length(v) - One) <= 2

\* the direction from the origin to a position at the distance of the light
DirectionTo(position) ==
    <<position[1] \div distance, position[2] \div distance, position[3] \div distance>>

\* position lies at the distance of the light (20) from the origin
AtLightDistance(position) ==
    /\ position = multiplyScalar(DirectionTo(position), distance)
    /\ IsUnit(DirectionTo(position))

\* C17: equirectUVToDirection returns a unit vector for every UV pair, the
\* stored sun direction (default, calibrated or analysed) is a unit vector
\* in every state, its rotation about the vertical axis is a unit vector,
\* and once updateSunLightPosition has placed the light it stands at
\* distance 20 from the origin
SunDirectionUnit ==
    /\ \A u \in UVGrid : \A v \in UVGrid : IsUnit(equirectUVToDirection(u, v))
    /\ IsUnit(viewer.sunDirection)
    /\ \A value \in Rotations : IsUnit(applyAxisAngleY(viewer.sunDirection, DegToRad(value)))
    /\ sunLight.position # PlaceholderPosition => AtLightDistance(sunLight.position)

\* the calibrated direction of 'sunset' is stored and the light was placed
\* along its rotation by 45 degrees
CalibratedRotated ==
    /\ viewer.sunDirection = normalize(hdriSunPositions["sunset"].direction)
    /\ viewer.hdriRotation = 45
    /\ sunLight.position =
          multiplyScalar(applyAxisAngleY(viewer.sunDirection, DegToRad(45)), distance)
    /\ sunLight.position # multiplyScalar(viewer.sunDirection, distance)

\* ------------------------------------------------------------------------
\* C18: the background follows the checkbox and the loaded HDRI
\* ------------------------------------------------------------------------

\* s shows the HDRI: the environment map is the scene's background, on an
\* opaque clear colour, and the 2D background layer is cleared
ShowsHDRI(s) ==
    /\ s.scene.background = s.viewer.currentHDRI
    /\ s.renderer.clearAlpha = 1
    /\ s.backgroundCanvas = "cleared"

\* s is transparent: no scene background, a transparent clear colour, and
\* the 2D background layer drawn
ShowsBackgroundLayer(s) ==
    /\ s.scene.background = Null
    /\ s.renderer.clearAlpha = 0
    /\ s.backgroundCanvas = "drawn"

\* the state after the checkbox is ticked and then unticked
ToggledOnOff(s) ==
    onHdriBackgroundVisibleChange(onHdriBackgroundVisibleChange(s, TRUE), FALSE)

HasBackgroundLayer(c) == \E i \in 1..Len(c.drawn) : c.drawn[i].layer = "background"

\* C19: after an export, the background manager of the page being there,
\* the target canvas holds the background layer exactly when render() draws
\* the background layer in that state, that is, whenever the HDRI is not
\* shown as the scene's background
ExportMatchesRender ==
    (handler.outcome = "exported" /\ window.Chatooly) =>
        (HasBackgroundLayer(targetCanvas) <=> RenderDrawsBackgroundLayer(State))

\* ------------------------------------------------------------------------
\* C20: what renderHighResolution changes
\* ------------------------------------------------------------------------

\* the layers of an export at width x height: the scene, rendered at that
\* size, last, and under it the background if it was drawn
ExportLayers(drawn, width, height) ==
    /\ Len(drawn) \in {1, 2}
    /\ drawn[Len(drawn)] = Layer("scene", [width |-> width, height |-> height],
                                 width, height)
    /\ Len(drawn) = 2 => (drawn[1].layer = "background"
                          /\ drawn[1].width = width /\ drawn[1].height = height)

\* after is before but for the target canvas, which has the size of the
\* canvas of before times scale and holds the layers of an export
ExportedFrom(before, after, scale) ==
    /\ after.targetCanvas.width = before.canvas.width * scale
    /\ after.targetCanvas.height = before.canvas.height * scale
    /\ ExportLayers(after.targetCanvas.drawn, before.canvas.width * scale,
                    before.canvas.height * scale)
    /\ after.canvas = before.canvas
    /\ after = [before EXCEPT !.targetCanvas = after.targetCanvas]

SameOrientation(m, n) ==
    \A i \in 1..3 : \A j \in 1..3 : Abs(m[i][j] - n[i][j]) <= Sin(DegToRad(1))

\* the container of after is the container of before: the same position,
\* scale and children, and the same orientation
SameContainer(before, after) ==
    /\ after.modelContainer.position = before.modelContainer.position
    /\ after.modelContainer.scale = before.modelContainer.scale
    /\ after.modelContainer.children = before.modelContainer.children
    /\ SameOrientation(after.modelContainer.rotation, before.modelContainer.rotation)

\* C21: in every state, the turntable having turned the container or not, an
\* hdri-intensity input and an hdri-rotation input leave the orientation,
\* position and scale of the model container as they are
HDRIInputsKeepContainer ==
    /\ \A value \in HdriIntensities :
          SameContainer(State, onHdriIntensityInput(State, value))
    /\ \A value \in Rotations :
          SameContainer(State, onHdriRotationInput(State, value))

\* ------------------------------------------------------------------------
\* C22: the stored sun direction is only read
\* ------------------------------------------------------------------------

\* the fast path run once more on s
FastPathAgain(s) == updateHDRISettings(s, FALSE)

\* C22: a step that replaces the stored sun direction is the completion of
\* an HDRI load; and in every state the fast path run twice places the light
\* where the fast path run once places it, the stored direction unchanged
SunDirectionOnlyRead ==
    /\ [][viewer'.sunDirection # viewer.sunDirection => handler'.outcome = "loaded"]_vars
    /\ [](/\ FastPathAgain(FastPathAgain(State)).sunLight = FastPathAgain(State).sunLight
          /\ FastPathAgain(State).viewer.sunDirection = viewer.sunDirection)

\* the timer fired at 90 degrees under the calibrated direction of 'studio',
\* which is still the stored direction
DirectionKeptByTimer ==
    /\ viewer.sunDirection = normalize(hdriSunPositions["studio"].direction)
    /\ viewer.hdriRotation = 90
    /\ handler.outcome = "none"
    /\ handler.regenCalls = <<DegToRad(90)>>
    /\ sunLight.position =
          multiplyScalar(applyAxisAngleY(viewer.sunDirection, DegToRad(90)), distance)

\* ------------------------------------------------------------------------
\* C23: tone mapping follows the background mode
\* ------------------------------------------------------------------------

\* C23: at the end of every handler the renderer uses ACES tone mapping with
\* the HDRI intensity as exposure exactly when the HDRI is shown as the
\* scene's background, and no tone mapping with exposure 1.0 otherwise
ToneMappingFollowsBackground ==
    IF scene.background # Null
    THEN /\ renderer.toneMapping = "ACESFilmicToneMapping"
         /\ renderer.toneMappingExposure = viewer.hdriIntensity
    ELSE /\ renderer.toneMapping = "NoToneMapping"
         /\ renderer.toneMappingExposure = One

\* ------------------------------------------------------------------------
\* C24: one model at a time
\* ------------------------------------------------------------------------

\* the models that a loader has handed over and that are no longer current
\* are those left in the container and those disposed
FormerModels == (modelContainer.children \cup models.disposed) \ {viewer.currentModel}

\* C24: after any interleaving of uploads and loader completions the
\* container holds at most one model, the current one, and every model that
\* is no longer current has been removed from the container and disposed
OnlyCurrentModel ==
    /\ modelContainer.children \subseteq {viewer.currentModel}
    /\ \A m \in FormerModels :
          m \notin modelContainer.children /\ m \in models.disposed

\* ------------------------------------------------------------------------
\* C25: no use after dispose
\* ------------------------------------------------------------------------

\* C25: at the end of every handler the scene's environment is currentHDRI
\* and is not disposed, the scene's background is null or that same map, and
\* the texture a slow-path regeneration would be handed, originalHDRITexture,
\* is not disposed
NoUseAfterDispose ==
    /\ scene.environment = viewer.currentHDRI
    /\ viewer.currentHDRI \notin disposed
    /\ scene.background \in {Null, viewer.currentHDRI}
    /\ viewer.originalHDRITexture \notin disposed

\* the debounce timer has regenerated the environment of the second HDRI
\* loaded, while the HDRI is shown as background
RegeneratedWhileShown ==
    /\ handler.outcome = "none"
    /\ handler.regenCalls # <<>>
    /\ scene.background # Null
    /\ live.texture >= 2

\* ------------------------------------------------------------------------
\* C26: the HDRI resources do not accumulate
\* ------------------------------------------------------------------------

\* C26: after any sequence of HDRI loads and regenerations at most one
\* environment map, at most one clone of an original texture and at most one
\* loaded source texture are left undisposed
ResourcesBounded ==
    /\ live.envMap <= 1
    /\ live.clone <= 1
    /\ live.texture <= 1

\* ------------------------------------------------------------------------
\* C27: nothing runs on the disposed renderer
\* ------------------------------------------------------------------------

\* C27: once dispose() has returned, no callback that was pending (animation
\* frame, debounce timer, HDRI or model load completion) renders the scene
\* or generates an environment map
NoCallbackAfterDispose ==
    renderer.disposed => handler.regenCalls = <<>> /\ ~handler.rendered

=============================================================================
